---------------------------- MODULE Spec2Model ----------------------------
(***************************************************************************)
(* A model of business_scraper.py: the extraction and qualification        *)
(* pipeline of SmallBusinessScraper.                                       *)
(*                                                                         *)
(* Python values.  A str is a sequence of tokens (<<>> is the empty str),  *)
(* so that substring and prefix tests are computed, not assumed.  A value  *)
(* held in a dict decoded from JSON is one of                              *)
(*    [t |-> "null"]               None / null                             *)
(*    [t |-> "bool", b |-> ...]    True / False                            *)
(*    [t |-> "str",  s |-> ...]    a str                                   *)
(*    [t |-> "obj",  o |-> ...]    a nested dict                           *)
(* A dict is a function whose domain is the set of keys it holds.          *)
(***************************************************************************)
EXTENDS Integers, Sequences, FiniteSets, TLC

VARIABLES
    urls,                  \* scrape_businesses: the argument
    idx,                   \* scrape_businesses: position of the for loop (1-based)
    pc,                    \* scrape_businesses: the next blocking step
    html,                  \* scrape_businesses: local html
    business_data,         \* scrape_businesses: local business_data
    qualified_businesses,  \* scrape_businesses: the result list
    hashSeed,              \* the process's str hash seed (orders list(set(...)))
    log,                   \* history: what happened at each URL position
    call,                  \* a single call of one method: its inputs
    ret                    \* a single call of one method: its outcome

vars == <<urls, idx, pc, html, business_data, qualified_businesses,
          hashSeed, log, call, ret>>

---------------------------------------------------------------------------
(* Python values *)

JNull == [t |-> "null"]

JBool(b) == [t |-> "bool", b |-> b]

JStr(s) == [t |-> "str", s |-> s]

JObj(d) == [t |-> "obj", o |-> d]

\* bool(v): what `if v` / `not v` / `and` test
Truthy(v) ==
    CASE v.t = "null" -> FALSE
      [] v.t = "bool" -> v.b
      [] v.t = "str"  -> v.s # <<>>
      [] v.t = "obj"  -> DOMAIN v.o # {}

EmptyDict == [k \in {} |-> JNull]

\* d[k] = v
DictSet(d, k, v) == [x \in DOMAIN d \cup {k} |-> IF x = k THEN v ELSE d[x]]

\* d.get(k, default)
DictGet(d, k, default) == IF k \in DOMAIN d THEN d[k] ELSE default

\* d.get(k)
Get(d, k) == DictGet(d, k, JNull)

\* x and y, which evaluates to x when x is falsy and to y otherwise
PyAnd(x, y) == IF Truthy(x) THEN y ELSE x

\* not x
PyNot(x) == JBool(~Truthy(x))

\* sub in s, for strs
Contains(s, sub) ==
    \E i \in 0..(Len(s) - Len(sub)) : SubSeq(s, i + 1, i + Len(sub)) = sub

\* s.endswith(suffix)
EndsWith(s, suffix) ==
    /\ Len(s) >= Len(suffix)
    /\ SubSeq(s, Len(s) - Len(suffix) + 1, Len(s)) = suffix

---------------------------------------------------------------------------
(* A model reply is a str read by re.search and json.loads only, so it is  *)
(* kept as the sequence of its JSON-relevant tokens:                       *)
(*    [k |-> "w"]                      text that is no JSON (commentary)   *)
(*    [k |-> "lb"]  [k |-> "rb"]       the characters { and }              *)
(*    [k |-> "pair", key, val]         "key": scalar (with its comma)      *)
(*    [k |-> "key", key]               "key": before a nested object       *)

TokW == [k |-> "w"]

TokLb == [k |-> "lb"]

TokRb == [k |-> "rb"]

TokPair(key, val) == [k |-> "pair", key |-> key, val |-> val]

TokKey(key) == [k |-> "key", key |-> key]

\* ollama.chat: it raises, or it returns a response holding the reply text
InferError == [ok |-> FALSE]

InferReply(text) == [ok |-> TRUE, text |-> text]

\* re.search(r'\{.*\}', text, re.DOTALL).group(): greedy, from the first {
\* to the last }; no match when no } follows the first {
NoMatch == [found |-> FALSE]

ReSearchBraces(text) ==
    LET lbs == {i \in 1..Len(text) : text[i].k = "lb"}
        rbs == {i \in 1..Len(text) : text[i].k = "rb"}
    IN  IF lbs = {} \/ rbs = {} THEN NoMatch
        ELSE LET first == CHOOSE i \in lbs : \A j \in lbs : i <= j
                 last  == CHOOSE i \in rbs : \A j \in rbs : j <= i
             IN  IF first < last
                 THEN [found |-> TRUE, group |-> SubSeq(text, first, last)]
                 ELSE NoMatch

\* json.loads of a str that starts with {: the decoder reads one object
\* (later duplicate keys win) and raises on anything it cannot read and on
\* data that follows the object
DecodeFail == [ok |-> FALSE]

RECURSIVE DecodeMembers(_, _, _)
DecodeMembers(toks, i, acc) ==
    IF i > Len(toks) THEN DecodeFail
    ELSE CASE toks[i].k = "rb" -> [ok |-> TRUE, d |-> acc, next |-> i + 1]
           [] toks[i].k = "pair" ->
                DecodeMembers(toks, i + 1, DictSet(acc, toks[i].key, toks[i].val))
           [] toks[i].k = "key" ->
                IF i + 1 <= Len(toks) /\ toks[i + 1].k = "lb"
                THEN LET inner == DecodeMembers(toks, i + 2, EmptyDict)
                     IN  IF inner.ok
                         THEN DecodeMembers(toks, inner.next,
                                            DictSet(acc, toks[i].key, JObj(inner.d)))
                         ELSE DecodeFail
                ELSE DecodeFail
           [] OTHER -> DecodeFail

JsonLoads(toks) ==
    IF toks = <<>> \/ toks[1].k # "lb" THEN DecodeFail
    ELSE LET r == DecodeMembers(toks, 2, EmptyDict)
         IN  IF r.ok /\ r.next = Len(toks) + 1
             THEN [ok |-> TRUE, d |-> r.d]
             ELSE DecodeFail

---------------------------------------------------------------------------
(* A page (html_content) is a str kept as the sequence of its elements:    *)
(*    [k |-> "mailto", email]       <a href="mailto:email">                *)
(*    [k |-> "email", email]        an email-shaped token of visible text  *)
(*    [k |-> "phone", fmt, num]     a phone-shaped run of the markup, num  *)
(*                                  its digit groups                       *)
(*    [k |-> "address", s]          a street-address match of the text     *)
(*    [k |-> "word"]                any other content                      *)
(* An email is a str: a sequence of tokens with "@" and "." as tokens.     *)

\* SelectSeq followed by a projection
RECURSIVE FieldOf(_, _, _)
FieldOf(page, kind, i) ==
    IF i > Len(page) THEN <<>>
    ELSE IF page[i].k = kind
         THEN <<page[i]>> \o FieldOf(page, kind, i + 1)
         ELSE FieldOf(page, kind, i + 1)

RECURSIVE MapEmail(_)
MapEmail(elems) ==
    IF elems = <<>> THEN <<>>
    ELSE <<Head(elems).email>> \o MapEmail(Tail(elems))

\* re.findall(mailto_pattern, html_content, re.IGNORECASE)
mailto_emails(html_content) == MapEmail(FieldOf(html_content, "mailto", 1))

\* re.findall(email_pattern, soup.get_text())
text_emails(html_content) == MapEmail(FieldOf(html_content, "email", 1))

\* str.lower() of one token
LowerTok(tok) ==
    CASE tok = "Contact" -> "contact"
      [] tok = "Info"    -> "info"
      [] tok = "Example" -> "example"
      [] tok = "COM"     -> "com"
      [] OTHER           -> tok

\* email.lower().strip()
Lower(email) == [i \in 1..Len(email) |-> LowerTok(email[i])]

\* the extensions of r'\.(png|jpg|jpeg|gif|svg|webp|pdf|js|css|woff|ttf|ico)'
FileExts ==
    {"png", "jpg", "jpeg", "gif", "svg", "webp", "pdf", "js", "css", "woff",
     "ttf", "ico"}

HasFileExt(email) ==
    \E i \in 1..(Len(email) - 1) : email[i] = "." /\ email[i + 1] \in FileExts

\* email.split('@')
AtPositions(email) == {i \in 1..Len(email) : email[i] = "@"}

DomainOf(email) ==
    LET at == CHOOSE i \in AtPositions(email) : TRUE
    IN  SubSeq(email, at + 1, Len(email))

LocalOf(email) ==
    LET at == CHOOSE i \in AtPositions(email) : TRUE
    IN  SubSeq(email, 1, at - 1)

\* len(s) in characters
RECURSIVE CharLen(_)
CharLen(s) == IF s = <<>> THEN 0 ELSE Len(Head(s)) + CharLen(Tail(s))

valid_tlds == <<"com", "net", "org", "edu", "gov", "co", "us", "io", "biz", "info">>

MinDomainLen == 4

\* the body of the for loop over all_emails: TRUE when the (lower-cased)
\* email reaches valid_emails.append
ValidEmail(email) ==
    /\ ~HasFileExt(email)
    /\ ~Contains(email, <<"@", "2x">>) /\ ~Contains(email, <<"@", "3x">>)
    /\ Cardinality(AtPositions(email)) = 1
    /\ LET domain == DomainOf(email)
       IN  /\ ~(CharLen(domain) < MinDomainLen)
           /\ ~Contains(domain, <<"/">>) /\ ~Contains(domain, <<"\\">>)
           /\ \E i \in 1..Len(valid_tlds) : EndsWith(domain, <<".", valid_tlds[i]>>)

RECURSIVE FilterValid(_)
FilterValid(emails) ==
    IF emails = <<>> THEN <<>>
    ELSE LET email == Lower(Head(emails))
         IN  IF ValidEmail(email)
             THEN <<email>> \o FilterValid(Tail(emails))
             ELSE FilterValid(Tail(emails))

valid_emails(html_content) ==
    FilterValid(mailto_emails(html_content) \o text_emails(html_content))

\* the elements of a list, each once, in first-seen order
RECURSIVE Dedupe(_, _)
Dedupe(s, seen) ==
    IF s = <<>> THEN seen
    ELSE IF \E i \in 1..Len(seen) : seen[i] = Head(s)
         THEN Dedupe(Tail(s), seen)
         ELSE Dedupe(Tail(s), Append(seen, Head(s)))

Reverse(s) == [i \in 1..Len(s) |-> s[Len(s) + 1 - i]]

\* list(set(valid_emails)): the elements once each, in the iteration order
\* of a set of strs, which the process's hash seed decides
Seeds == {0, 1}

ListOfSet(s, seed) == IF seed = 0 THEN Dedupe(s, <<>>) ELSE Reverse(Dedupe(s, <<>>))

unique_emails(html_content, seed) == ListOfSet(valid_emails(html_content), seed)

generic_prefixes ==
    <<"info", "contact", "sales", "support", "hello", "admin", "service", "office">>

\* any(prefix in e for prefix in ['info@', 'contact@', ...])
HasGenericPrefix(e) ==
    \E i \in 1..Len(generic_prefixes) : Contains(e, <<generic_prefixes[i], "@">>)

RECURSIVE Filter(_, _)
Filter(s, keep) ==
    IF s = <<>> THEN <<>>
    ELSE IF HasGenericPrefix(Head(s)) = keep
         THEN <<Head(s)>> \o Filter(Tail(s), keep)
         ELSE Filter(Tail(s), keep)

owner_emails(html_content, seed) == Filter(unique_emails(html_content, seed), FALSE)

business_emails(html_content, seed) == Filter(unique_emails(html_content, seed), TRUE)

---------------------------------------------------------------------------
(* Phones.  The formats a phone-shaped run of the markup can have, and the *)
(* patterns of phone_patterns (1, 2, 3, in the list's order) that match it:*)
(*    "paren_dash"  (555) 987-6543     1 and 3                             *)
(*    "dash"        555-123-4567       1 and 2                             *)
(*    "paren_dot"   (555) 987.6543     1                                   *)
(*    "plain"       5551234567         1                                   *)
(* A run can hold matches that overlap: in "5551234567 555-9876" pattern 1 *)
(* matches 5551234567 and pattern 2, which needs its separators, matches   *)
(* "567 555-9876" further on.  Such a run has fmt "plain_tail", num the    *)
(* digit groups of the first match and tail those of the second.           *)

PatternMatches(pattern, fmt) ==
    CASE pattern = 1 -> fmt \in {"paren_dash", "dash", "paren_dot", "plain"}
      [] pattern = 2 -> fmt = "dash"
      [] pattern = 3 -> fmt = "paren_dash"

\* the matches of one pattern within one run, in the order of the scan
MatchesIn(pattern, elem) ==
    IF elem.fmt = "plain_tail"
    THEN CASE pattern = 1 -> <<elem.num>>
           [] pattern = 2 -> <<elem.tail>>
           [] pattern = 3 -> <<>>
    ELSE IF PatternMatches(pattern, elem.fmt) THEN <<elem.num>> ELSE <<>>

\* re.findall(pattern, html_content)
RECURSIVE FindAll(_, _)
FindAll(pattern, elems) ==
    IF elems = <<>> THEN <<>>
    ELSE MatchesIn(pattern, Head(elems)) \o FindAll(pattern, Tail(elems))

\* for pattern in phone_patterns: phones.extend(re.findall(pattern, html_content))
phones(html_content) ==
    LET elems == FieldOf(html_content, "phone", 1)
    IN  FindAll(1, elems) \o FindAll(2, elems) \o FindAll(3, elems)

PhoneDigits == 10

\* f"({digits_only[:3]}) {digits_only[3:6]}-{digits_only[6:]}"
FormatPhone(num) == <<"(", num[1], ")", " ", num[2], "-", num[3]>>

RECURSIVE CleanPhones(_, _)
CleanPhones(found, cleaned) ==
    IF found = <<>> THEN cleaned
    ELSE LET formatted == FormatPhone(Head(found))
         IN  IF CharLen(Head(found)) = PhoneDigits
                /\ ~\E i \in 1..Len(cleaned) : cleaned[i] = formatted
             THEN CleanPhones(Tail(found), Append(cleaned, formatted))
             ELSE CleanPhones(Tail(found), cleaned)

cleaned_phones(html_content) == CleanPhones(phones(html_content), <<>>)

\* x[0] if x else None
FirstOrNone(list) == IF list # <<>> THEN JStr(list[1]) ELSE JNull

main_phone(html_content) == FirstOrNone(cleaned_phones(html_content))

RECURSIVE MapText(_)
MapText(elems) ==
    IF elems = <<>> THEN <<>>
    ELSE <<Head(elems).s>> \o MapText(Tail(elems))

\* re.findall(address_pattern, soup.get_text())
addresses(html_content) == MapText(FieldOf(html_content, "address", 1))

main_address(html_content) == FirstOrNone(addresses(html_content))

---------------------------------------------------------------------------
(* The inputs the model draws from.                                         *)

MaxUrls == 3

URLS == {<<"http://a.example">>, <<"http://b.example">>}

OtherUrl == <<"http://model.example">>

\* the lists scrape_businesses is given: the two sites in turn, from either
UrlCycles == {<<<<"http://a.example">>, <<"http://b.example">>>>,
              <<<<"http://b.example">>, <<"http://a.example">>>>}

UrlLists ==
    {[i \in 1..n |-> c[((i - 1) % Len(c)) + 1]] : c \in UrlCycles, n \in 0..MaxUrls}

Email(local, domain) == local \o <<"@">> \o domain

AcmeCom == <<"acme", ".", "com">>

PhoneDash == [k |-> "phone", fmt |-> "dash", num |-> <<"555", "123", "4567">>]

PhoneParen == [k |-> "phone", fmt |-> "paren_dash", num |-> <<"555", "987", "6543">>]

PhoneParenDot == [k |-> "phone", fmt |-> "paren_dot", num |-> <<"555", "987", "6543">>]

\* a page with every kind of signal
PageFull ==
    <<[k |-> "word"],
      [k |-> "mailto", email |-> Email(<<"jane">>, AcmeCom)],
      [k |-> "email", email |-> Email(<<"info">>, AcmeCom)],
      PhoneDash, PhoneParen,
      [k |-> "address", s |-> <<"12 Main St">>],
      [k |-> "address", s |-> <<"9 Oak Ave">>]>>

\* a page without signals
PageBare == <<[k |-> "word"]>>

\* the corpus "foo@bar.png, a@b.c, Contact@Example.COM" and the text
\* "Call 555-123-4567 or (555) 987.6543", with the dashed number repeated
PageCorpus ==
    <<[k |-> "email", email |-> Email(<<"foo">>, <<"bar", ".", "png">>)],
      [k |-> "email", email |-> Email(<<"a">>, <<"b", ".", "c">>)],
      [k |-> "email", email |-> Email(<<"Contact">>, <<"Example", ".", "COM">>)],
      PhoneDash, PhoneParenDot, PhoneDash>>

\* a page with two personal and two generic addresses
PageManyEmails ==
    <<[k |-> "mailto", email |-> Email(<<"sales">>, AcmeCom)],
      [k |-> "mailto", email |-> Email(<<"bob">>, AcmeCom)],
      [k |-> "email", email |-> Email(<<"jane">>, AcmeCom)],
      [k |-> "email", email |-> Email(<<"info">>, AcmeCom)],
      [k |-> "email", email |-> Email(<<"bob">>, AcmeCom)]>>

\* addresses whose local part holds a generic role word: as the whole of
\* it, at its end and at its start
PageRoleWords ==
    <<[k |-> "email", email |-> Email(<<"info", "guy">>, AcmeCom)],
      [k |-> "email", email |-> Email(<<"my", "info">>, AcmeCom)],
      [k |-> "email", email |-> Email(<<"office">>, AcmeCom)]>>

PhoneTollFree == [k |-> "phone", fmt |-> "dash", num |-> <<"800", "555", "0100">>]

\* the run "5551234567 555-9876"
PhonePlainTail ==
    [k |-> "phone", fmt |-> "plain_tail", num |-> <<"555", "123", "4567">>,
     tail |-> <<"567", "555", "9876">>]

\* the text "Call 5551234567 555-9876 or 800-555-0100"
PageOverlap == <<[k |-> "word"], PhonePlainTail, [k |-> "word"], PhoneTollFree>>

Pages == {PageFull, PageBare, PageCorpus, PageManyEmails, PageRoleWords, PageOverlap}

\* a key the reply leaves out
Missing == [t |-> "missing"]

\* the dict holding the keys of assignment a that are not Missing
DictOf(a) == [k \in {x \in DOMAIN a : a[x] # Missing} |-> a[k]]

\* the reply text of a flat JSON object: its pairs in the order of keys
RECURSIVE Pairs(_, _)
Pairs(d, keys) ==
    IF keys = <<>> THEN <<>>
    ELSE IF Head(keys) \in DOMAIN d
         THEN <<TokPair(Head(keys), d[Head(keys)])>> \o Pairs(d, Tail(keys))
         ELSE Pairs(d, Tail(keys))

Encode(d, keys) == <<TokLb>> \o Pairs(d, keys) \o <<TokRb>>

\* replies that hold no JSON object, or one json.loads cannot decode
NoJsonTexts == {<<>>, <<TokW>>, <<TokLb, TokW>>, <<TokRb, TokW, TokLb>>}

UndecodableTexts ==
    {<<TokLb, TokW, TokRb>>,
     <<TokLb, TokPair("business_name", JStr(<<"Acme">>)), TokRb, TokW, TokLb, TokRb>>,
     <<TokLb, TokKey("is_small_independent"), TokRb>>}

ModelStr == JStr(<<"from the model">>)

ContactVals == {Missing, JNull, JStr(<<>>), ModelStr}

ExtractKeys ==
    <<"business_name", "business_email", "owner_email", "phone", "address",
      "source_url">>

ExtractDicts ==
    {DictOf(a) : a \in
        [business_name  : {Missing, JStr(<<"Acme">>)},
         business_email : ContactVals,
         owner_email    : ContactVals,
         phone          : ContactVals,
         address        : ContactVals,
         source_url     : {Missing, JStr(OtherUrl)}]}

\* an object nested in the reply's object, and commentary before the object
NestedExtractText ==
    <<TokW, TokLb, TokPair("business_name", JStr(<<"Acme">>)), TokKey("contact"),
      TokLb, TokPair("phone", ModelStr), TokRb,
      TokPair("source_url", JStr(OtherUrl)), TokRb>>

\* replies with text after the object: commentary without braces, a second
\* pair of braces, a lone closing brace
TrailingTexts ==
    {<<TokW, TokLb, TokPair("business_name", JStr(<<"Acme">>)), TokRb, TokW>>,
     <<TokW, TokLb, TokPair("business_name", JStr(<<"Acme">>)), TokKey("contact"),
       TokLb, TokPair("phone", ModelStr), TokRb, TokRb, TokW, TokLb, TokW, TokRb>>,
     <<TokW, TokLb, TokPair("is_small_independent", JBool(TRUE)),
       TokPair("is_service_based", JBool(TRUE)),
       TokPair("is_chain_or_franchise", JBool(FALSE)), TokRb, TokW, TokLb, TokRb, TokW>>,
     <<TokLb, TokPair("is_small_independent", JBool(TRUE)),
       TokPair("is_service_based", JBool(TRUE)),
       TokPair("is_chain_or_franchise", JBool(FALSE)), TokRb, TokW, TokRb>>}

ExtractResponses ==
    {InferError}
    \cup {InferReply(t) : t \in NoJsonTexts \cup UndecodableTexts \cup {NestedExtractText}
                                 \cup TrailingTexts}
    \cup {InferReply(Encode(d, ExtractKeys)) : d \in ExtractDicts}

VerdictKeys == <<"is_small_independent", "is_service_based", "is_chain_or_franchise">>

VerdictVals == {Missing, JBool(TRUE), JBool(FALSE), JNull, JStr(<<"false">>)}

VerdictDicts ==
    {DictOf(a) : a \in
        [is_small_independent  : VerdictVals,
         is_service_based      : VerdictVals,
         is_chain_or_franchise : VerdictVals]}

ClassifyResponses ==
    {InferError}
    \cup {InferReply(t) : t \in NoJsonTexts \cup UndecodableTexts \cup TrailingTexts}
    \cup {InferReply(Encode(d, VerdictKeys)) : d \in VerdictDicts}
    \cup {InferReply(<<TokW>> \o Encode(d, VerdictKeys)) : d \in VerdictDicts}

ClassifyData == {[business_name |-> JStr(<<"Acme">>), source_url |-> JStr(OtherUrl)]}

\* which branch a method takes on a response
ResponsePath(response) ==
    IF ~response.ok THEN "infer_error"
    ELSE LET json_match == ReSearchBraces(response.text)
         IN  IF ~json_match.found THEN "no_json"
             ELSE IF ~JsonLoads(json_match.group).ok THEN "decode_error"
             ELSE "parsed"

\* the dict json.loads gives on the parsed path
Parsed(response) == JsonLoads(ReSearchBraces(response.text).group).d

---------------------------------------------------------------------------
(* The outcome of a call: a value returned, or an exception leaving it.    *)

Return(v) == [raised |-> FALSE, value |-> v]

Raise == [raised |-> TRUE]

\* faulty variant of BackFill: the signal overwrites what the model gave
BackFillOverwrite(d, key, signal) ==
    IF Truthy(signal) THEN DictSet(d, key, signal) ELSE d

\* if not business_data.get(key) and signal: business_data[key] = signal
\* (signal is None when ContactSignals has nothing for key)

BackFill(d, key, signal) ==
    IF ~Truthy(Get(d, key)) /\ Truthy(signal) THEN DictSet(d, key, signal) ELSE d

\* the deterministic pass of extract_business_info over the page, which
\* ends before the model is called: what the rest of the method reads of it
ContactSignals(html_content, seed) ==
    [business_email |-> FirstOrNone(business_emails(html_content, seed)),
     owner_email    |-> FirstOrNone(owner_emails(html_content, seed)),
     phone          |-> main_phone(html_content),
     address        |-> main_address(html_content)]

\* ContactSignals of every page and seed of the model, computed once
SignalsOfPages ==
    {[html_content |-> p, seed |-> sd, signals |-> ContactSignals(p, sd)] :
        p \in Pages, sd \in Seeds}

SignalsFor(html_content, seed) ==
    (CHOOSE e \in SignalsOfPages :
        e.html_content = html_content /\ e.seed = seed).signals

\* the dict of the else branch and of the except branch
Degraded(signals, url) ==
    [source_url     |-> JStr(url),
     business_email |-> signals.business_email,
     owner_email    |-> signals.owner_email,
     phone          |-> signals.phone,
     address        |-> signals.address]

\* faulty variant of StampUrl: a source_url the model gave is kept
StampUrlIfMissing(d, url) ==
    IF "source_url" \in DOMAIN d THEN d ELSE DictSet(d, "source_url", JStr(url))

\* business_data['source_url'] = url
StampUrl(d, url) == DictSet(d, "source_url", JStr(url))

\* the if json_match branch, after json.loads returned
Merged(loaded, signals, url) ==
    LET d0 == StampUrl(loaded, url)
        d1 == BackFill(d0, "business_email", signals.business_email)
        d2 == BackFill(d1, "owner_email", signals.owner_email)
        d3 == BackFill(d2, "phone", signals.phone)
    IN  BackFill(d3, "address", signals.address)

\* faulty variant of ExtractExcept: the exception leaves the method
ExtractExceptRaises(signals, url) == Raise

\* except Exception as e: return {...}
ExtractExcept(signals, url) == Return(Degraded(signals, url))

\* the try statement: the model is called and its reply parsed; ollama.chat
\* and json.loads raise into the except clause
ModelPass(signals, url, response) ==
    IF ~response.ok
    THEN ExtractExcept(signals, url)
    ELSE LET json_match == ReSearchBraces(response.text)
         IN  IF json_match.found
             THEN LET loaded == JsonLoads(json_match.group)
                  IN  IF loaded.ok
                      THEN Return(Merged(loaded.d, signals, url))
                      ELSE ExtractExcept(signals, url)
             ELSE Return(Degraded(signals, url))

\* extract_business_info(html_content, url), where response is what
\* ollama.chat does for the prompt and seed the process's hash seed.  The
\* prompt reaches the state only through the model's reply.
extract_business_info(html_content, url, response, seed) ==
    ModelPass(SignalsFor(html_content, seed), url, response)

\* faulty variant of IsQualified: the chain test is left out
IsQualifiedNoChainTest(analysis) ==
    PyAnd(DictGet(analysis, "is_small_independent", JBool(FALSE)),
          DictGet(analysis, "is_service_based", JBool(FALSE)))

\* faulty variant of IsQualified: a missing is_chain_or_franchise is False
IsQualifiedChainDefaultFalse(analysis) ==
    PyAnd(PyAnd(DictGet(analysis, "is_small_independent", JBool(FALSE)),
                DictGet(analysis, "is_service_based", JBool(FALSE))),
          PyNot(DictGet(analysis, "is_chain_or_franchise", JBool(FALSE))))

\* is_qualified = (analysis.get(...) and analysis.get(...) and not analysis.get(...))
IsQualified(analysis) ==
    PyAnd(PyAnd(DictGet(analysis, "is_small_independent", JBool(FALSE)),
                DictGet(analysis, "is_service_based", JBool(FALSE))),
          PyNot(DictGet(analysis, "is_chain_or_franchise", JBool(TRUE))))

\* faulty variant of ClassifyExcept: the exception leaves the method
ClassifyExceptRaises == Raise

\* except Exception as e: return False
ClassifyExcept == Return(JBool(FALSE))

\* is_small_independent_business(business_data), where response is what
\* ollama.chat does for the prompt built from business_data; ollama.chat
\* and json.loads raise into the except clause
is_small_independent_business(data, response) ==
    IF ~response.ok
    THEN ClassifyExcept
    ELSE LET json_match == ReSearchBraces(response.text)
         IN  IF json_match.found
             THEN LET loaded == JsonLoads(json_match.group)
                  IN  IF loaded.ok
                      THEN Return(IsQualified(loaded.d))
                      ELSE ClassifyExcept
             ELSE Return(JBool(FALSE))

\* faulty variant of scrape_business_page: no try around the request
scrape_business_page_uncaught(url, fetch) ==
    IF fetch.kind = "ok" THEN Return(JStr(fetch.text)) ELSE Raise

\* scrape_business_page(url), where fetch is what requests.get and
\* raise_for_status do: an exception of some kind, or a response with a body
scrape_business_page(url, fetch) ==
    IF fetch.kind = "ok" THEN Return(JStr(fetch.text)) ELSE Return(JNull)

---------------------------------------------------------------------------
(* scrape_businesses(urls).  One action per blocking step of the loop.     *)

NoCall == [fn |-> "none"]

NoRet == [done |-> FALSE]

SleepSeconds == 3

FetchErrors == {"network", "timeout", "status"}

\* what requests.get / raise_for_status can do; a 2xx body may be empty
FetchOutcomes ==
    {[kind |-> e] : e \in FetchErrors}
    \cup {[kind |-> "ok", text |-> t] : t \in {<<>>, PageFull}}

\* the model's responses while a batch runs
BatchExtractResponses ==
    {InferError, InferReply(<<TokW>>), InferReply(<<TokLb, TokW, TokRb>>)}
    \cup {InferReply(<<TokW>> \o Encode(DictOf(a), ExtractKeys)) : a \in
            [business_name : {Missing, JNull, JStr(<<>>), JStr(<<"Acme">>)},
             phone         : {ModelStr},
             source_url    : {JStr(OtherUrl)}]}

BatchClassifyResponses ==
    {InferError, InferReply(<<TokW>>), InferReply(<<TokLb, TokW, TokRb>>)}
    \cup {InferReply(Encode(DictOf(a), VerdictKeys)) : a \in
            [is_small_independent  : {JBool(TRUE)},
             is_service_based      : {JBool(TRUE), JBool(FALSE)},
             is_chain_or_franchise : {JBool(TRUE), JBool(FALSE)}]}

\* whether the fetch service failed or gave a 2xx response
FetchResult(fetch) == IF fetch.kind \in FetchErrors THEN "failed" ELSE "ok"

\* history of one URL position
LogInit(i) ==
    [state   |-> IF i = 1 THEN "Fetching" ELSE "Pending",
     fetch   |-> "pending",
     records |-> 0,
     rec     |-> EmptyDict,
     verdict |-> "none",
     slept   |-> 0]

\* the loop takes its next URL
StartNext(lg, i) == IF i \in DOMAIN lg THEN [lg EXCEPT ![i].state = "Fetching"] ELSE lg

Init ==
    /\ urls \in UrlLists
    /\ idx = 1
    /\ pc = "fetch"
    /\ html = JNull
    /\ business_data = EmptyDict
    /\ qualified_businesses = <<>>
    /\ hashSeed \in Seeds
    /\ log = [i \in 1..Len(urls) |-> LogInit(i)]
    /\ call = NoCall
    /\ ret = NoRet

\* if not html
HtmlMissing(h) == ~Truthy(h)

\* faulty variant of NameMissing: only a missing or null name is tested for
NameIsNone(d) == Get(d, "business_name") = JNull

\* if not business_data.get('business_name')
NameMissing(d) == ~Truthy(Get(d, "business_name"))

\* faulty variant of AppendRecord: the record is put first
PrependRecord(list, d) == <<d>> \o list

\* qualified_businesses.append(business_data)
AppendRecord(list, d) == Append(list, d)

\* html = self.scrape_business_page(url); if not html: continue
ScrapePage ==
    /\ pc = "fetch" /\ idx <= Len(urls)
    /\ \E fetch \in FetchOutcomes :
         LET r == scrape_business_page(urls[idx], fetch)
         IN  IF r.raised
             THEN /\ pc' = "raised"
                  /\ log' = [log EXCEPT ![idx].fetch = FetchResult(fetch)]
                  /\ UNCHANGED <<idx, html>>
             ELSE /\ html' = r.value
                  /\ IF HtmlMissing(r.value)
                     THEN /\ idx' = idx + 1
                          /\ pc' = "fetch"
                          /\ log' = StartNext([log EXCEPT ![idx].fetch = FetchResult(fetch),
                                                          ![idx].state = "Skipped"],
                                              idx + 1)
                     ELSE /\ pc' = "extract"
                          /\ log' = [log EXCEPT ![idx].fetch = FetchResult(fetch),
                                                ![idx].state = "Extracting"]
                          /\ UNCHANGED idx
    /\ UNCHANGED <<urls, business_data, qualified_businesses, hashSeed, call, ret>>

\* business_data = self.extract_business_info(html, url);
\* if not business_data.get('business_name'): continue
ExtractInfo ==
    /\ pc = "extract"
    /\ \E response \in BatchExtractResponses :
         LET r == extract_business_info(html.s, urls[idx], response, hashSeed)
         IN  IF r.raised
             THEN /\ pc' = "raised"
                  /\ UNCHANGED <<idx, business_data, log>>
             ELSE /\ business_data' = r.value
                  /\ IF NameMissing(r.value)
                     THEN /\ idx' = idx + 1
                          /\ pc' = "fetch"
                          /\ log' = StartNext([log EXCEPT ![idx].records = @ + 1,
                                                          ![idx].rec = r.value,
                                                          ![idx].state = "Skipped"],
                                              idx + 1)
                     ELSE /\ pc' = "classify"
                          /\ log' = [log EXCEPT ![idx].records = @ + 1,
                                                ![idx].rec = r.value,
                                                ![idx].state = "Classifying"]
                          /\ UNCHANGED idx
    /\ UNCHANGED <<urls, html, qualified_businesses, hashSeed, call, ret>>

\* if self.is_small_independent_business(business_data):
\*     qualified_businesses.append(business_data)
Classify ==
    /\ pc = "classify"
    /\ \E response \in BatchClassifyResponses :
         LET r == is_small_independent_business(business_data, response)
         IN  IF r.raised
             THEN /\ pc' = "raised"
                  /\ UNCHANGED <<qualified_businesses, log>>
             ELSE /\ pc' = "sleep"
                  /\ IF Truthy(r.value)
                     THEN /\ qualified_businesses' = AppendRecord(qualified_businesses, business_data)
                          /\ log' = [log EXCEPT ![idx].verdict = "accept",
                                                ![idx].state = "Accepted"]
                     ELSE /\ log' = [log EXCEPT ![idx].verdict = "reject",
                                                ![idx].state = "Rejected"]
                          /\ UNCHANGED qualified_businesses
    /\ UNCHANGED <<urls, idx, html, business_data, hashSeed, call, ret>>

\* time.sleep(3), the last statement of the loop body
Sleep ==
    /\ pc = "sleep"
    /\ log' = StartNext([log EXCEPT ![idx].slept = @ + SleepSeconds], idx + 1)
    /\ idx' = idx + 1
    /\ pc' = "fetch"
    /\ UNCHANGED <<urls, html, business_data, qualified_businesses, hashSeed, call, ret>>

\* return qualified_businesses
Finish ==
    /\ pc = "fetch" /\ idx > Len(urls)
    /\ pc' = "done"
    /\ UNCHANGED <<urls, idx, html, business_data, qualified_businesses, hashSeed,
                   log, call, ret>>

Next == ScrapePage \/ ExtractInfo \/ Classify \/ Sleep \/ Finish

Spec == Init /\ [][Next]_vars

\* every step of the loop is a blocking call that returns or fails
FairSpec == Spec /\ WF_vars(Next)

---------------------------------------------------------------------------
(* One call of extract_business_info or of is_small_independent_business,  *)
(* on inputs drawn from the sets above.                                    *)

ExtractCalls ==
    [fn : {"extract_business_info"}, html_content : Pages, url : URLS,
     response : ExtractResponses, seed : Seeds]

ClassifyCalls ==
    [fn : {"is_small_independent_business"}, data : ClassifyData,
     response : ClassifyResponses]

UnitInit ==
    /\ call \in ExtractCalls \cup ClassifyCalls
    /\ ret = NoRet
    /\ pc = "call"
    /\ urls = <<>>
    /\ idx = 1
    /\ html = JNull
    /\ business_data = EmptyDict
    /\ qualified_businesses = <<>>
    /\ hashSeed = 0
    /\ log = <<>>

CallExtract ==
    /\ pc = "call" /\ call.fn = "extract_business_info"
    /\ ret' = [done |-> TRUE,
               out |-> extract_business_info(call.html_content, call.url,
                                             call.response, call.seed)]
    /\ pc' = "returned"
    /\ UNCHANGED <<urls, idx, html, business_data, qualified_businesses, hashSeed,
                   log, call>>

CallClassify ==
    /\ pc = "call" /\ call.fn = "is_small_independent_business"
    /\ ret' = [done |-> TRUE,
               out |-> is_small_independent_business(call.data, call.response)]
    /\ pc' = "returned"
    /\ UNCHANGED <<urls, idx, html, business_data, qualified_businesses, hashSeed,
                   log, call>>

UnitNext == CallExtract \/ CallClassify

UnitSpec == UnitInit /\ [][UnitNext]_vars

\* both: a batch, or one call of a method
AllSpec == (Init \/ UnitInit) /\ [][Next \/ UnitNext]_vars

---------------------------------------------------------------------------
(* Properties.                                                             *)

Terminal == {"Accepted", "Rejected", "Skipped"}

\* businessName is absent: the key is missing, null or the empty str
AbsentName(d) ==
    \/ "business_name" \notin DOMAIN d
    \/ d["business_name"] = JNull
    \/ d["business_name"] = JStr(<<>>)

ExtractReturned == ret.done /\ call.fn = "extract_business_info"

ClassifyReturned == ret.done /\ call.fn = "is_small_independent_business"

\* C1: a record whose businessName is absent (missing, null or empty) is
\* never in the output of scrape_businesses: no output record has an absent
\* name, and a position whose record has one is Skipped without the
\* classifier being asked.
C1_AbsentNameExcluded ==
    /\ \A j \in 1..Len(qualified_businesses) : ~AbsentName(qualified_businesses[j])
    /\ \A i \in DOMAIN log :
         (log[i].records > 0 /\ AbsentName(log[i].rec))
            => (log[i].state = "Skipped" /\ log[i].verdict = "none")

\* a batch is over in which a record with name null was extracted at a
\* position that another, accepted, position follows
C1_Witness ==
    /\ pc = "done"
    /\ \E i, j \in DOMAIN log :
         /\ i < j
         /\ log[i].records = 1
         /\ "business_name" \in DOMAIN log[i].rec
         /\ log[i].rec["business_name"] = JNull
         /\ log[j].state = "Accepted"

\* C2: the classifier is fail-closed: when the inference call raises, or the
\* reply holds no JSON object, or the JSON found does not decode,
\* is_small_independent_business raises nothing and returns False.
C2_FailClosed ==
    (ClassifyReturned /\ ResponsePath(call.response) # "parsed")
        => (~ret.out.raised /\ ret.out.value = JBool(FALSE))

\* the call returned False on a reply whose braces hold no JSON
C2_Witness ==
    /\ ClassifyReturned
    /\ ResponsePath(call.response) = "decode_error"
    /\ ~ret.out.raised
    /\ ret.out.value = JBool(FALSE)

AllBool(d) ==
    \A i \in 1..Len(VerdictKeys) :
        VerdictKeys[i] \in DOMAIN d /\ d[VerdictKeys[i]].t = "bool"

\* C3: when the reply parses to a verdict of three booleans, the record is
\* accepted (the method's result is true) exactly when
\* is_small_independent and is_service_based and not is_chain_or_franchise.
C3_AcceptanceRule ==
    (ClassifyReturned /\ ResponsePath(call.response) = "parsed"
                      /\ AllBool(Parsed(call.response)))
        => /\ ~ret.out.raised
           /\ Truthy(ret.out.value) <=>
                 (/\ Parsed(call.response)["is_small_independent"].b
                  /\ Parsed(call.response)["is_service_based"].b
                  /\ ~Parsed(call.response)["is_chain_or_franchise"].b)

\* a verdict small, service-based and a chain, behind commentary, rejected
C3_Witness ==
    /\ ClassifyReturned
    /\ ResponsePath(call.response) = "parsed"
    /\ call.response.text[1] = TokW
    /\ AllBool(Parsed(call.response))
    /\ Parsed(call.response)["is_small_independent"].b
    /\ Parsed(call.response)["is_service_based"].b
    /\ Parsed(call.response)["is_chain_or_franchise"].b
    /\ ~Truthy(ret.out.value)

ContactKeys == <<"business_email", "owner_email", "phone", "address">>

\* the signal for each contact field: the first business email, the first
\* owner email, the primary phone and the address, None where there is none
SignalOf(html_content, seed, key) ==
    CASE key = "business_email" -> FirstOrNone(business_emails(html_content, seed))
      [] key = "owner_email"    -> FirstOrNone(owner_emails(html_content, seed))
      [] key = "phone"          -> FirstOrNone(cleaned_phones(html_content))
      [] key = "address"        -> FirstOrNone(addresses(html_content))

\* C4: every record extract_business_info(html, url) returns has source_url
\* equal to url, on every path and whatever the model gave for source_url;
\* hence every record a batch extracts, and every record in its output, has
\* the source_url of the input URL that produced it.
C4_SourceUrl ==
    /\ ExtractReturned
         => (~ret.out.raised /\ Get(ret.out.value, "source_url") = JStr(call.url))
    /\ \A i \in DOMAIN log :
         log[i].records > 0 => Get(log[i].rec, "source_url") = JStr(urls[i])
    /\ \A j \in 1..Len(qualified_businesses) :
         \E i \in DOMAIN log :
            /\ log[i].state = "Accepted"
            /\ qualified_businesses[j] = log[i].rec
            /\ Get(qualified_businesses[j], "source_url") = JStr(urls[i])

\* the model's reply parsed and named another source_url than the input's
C4_Witness ==
    /\ ExtractReturned
    /\ ResponsePath(call.response) = "parsed"
    /\ Get(Parsed(call.response), "source_url") = JStr(OtherUrl)
    /\ Get(ret.out.value, "source_url") = JStr(call.url)

\* C5: merge precedence, for each of business_email, owner_email, phone and
\* address of a model-parsed record: a value the model gave (present and not
\* empty) is kept, also when the signal differs; an absent one (missing,
\* null, empty) is filled with the signal when there is one, and is left as
\* the model gave it when there is none.
C5_MergePrecedence ==
    (ExtractReturned /\ ResponsePath(call.response) = "parsed")
        => \A i \in 1..Len(ContactKeys) :
             LET key    == ContactKeys[i]
                 model  == Parsed(call.response)
                 signal == SignalOf(call.html_content, call.seed, key)
                 final  == ret.out.value
             IN  IF Truthy(Get(model, key))
                 THEN key \in DOMAIN final /\ final[key] = model[key]
                 ELSE IF signal # JNull
                      THEN key \in DOMAIN final /\ final[key] = signal
                      ELSE /\ key \in DOMAIN final <=> key \in DOMAIN model
                           /\ Get(final, key) = Get(model, key)

\* the model gave a phone that differs from the page's primary phone and
\* gave no business email where the page has one: the phone is the model's
\* and the business email the signal
C5_Witness ==
    /\ ExtractReturned
    /\ ResponsePath(call.response) = "parsed"
    /\ Get(Parsed(call.response), "phone") = ModelStr
    /\ SignalOf(call.html_content, call.seed, "phone") = JStr(FormatPhone(PhoneDash.num))
    /\ ret.out.value["phone"] = ModelStr
    /\ "business_email" \notin DOMAIN Parsed(call.response)
    /\ Get(ret.out.value, "business_email") = JStr(Email(<<"info">>, AcmeCom))

\* C6: when the inference call fails, the reply holds no JSON object or the
\* decoding fails, extract_business_info raises nothing and returns a record
\* holding source_url and the four contact fields, each the signal or None,
\* and nothing else: business_name and every other field are absent.
C6_DegradedRecord ==
    (ExtractReturned /\ ResponsePath(call.response) # "parsed")
        => /\ ~ret.out.raised
           /\ DOMAIN ret.out.value =
                 {"source_url", "business_email", "owner_email", "phone", "address"}
           /\ ret.out.value["source_url"] = JStr(call.url)
           /\ \A i \in 1..Len(ContactKeys) :
                 ret.out.value[ContactKeys[i]] =
                     SignalOf(call.html_content, call.seed, ContactKeys[i])
           /\ AbsentName(ret.out.value)

\* the reply named the business, but a second object follows the first, so
\* the decoding failed: the record has the page's signals and no name
C6_Witness ==
    /\ ExtractReturned
    /\ ResponsePath(call.response) = "decode_error"
    /\ \E i \in 1..Len(call.response.text) :
          call.response.text[i] = TokPair("business_name", JStr(<<"Acme">>))
    /\ "business_name" \notin DOMAIN ret.out.value
    /\ ret.out.value["phone"] = JStr(FormatPhone(PhoneDash.num))
    /\ ret.out.value["owner_email"] # JNull

\* C7: whatever fetch, inference and parse errors occur, scrape_businesses
\* eventually returns, no exception having left it and every URL of the list
\* having been taken to a terminal state.
C7_BatchCompletes ==
    <>(pc = "done" /\ \A i \in DOMAIN log : log[i].state \in Terminal)

\* a batch is over whose first fetch failed, whose second URL got a degraded
\* record from a failing model, and whose third URL was classified
C7_Witness ==
    /\ pc = "done"
    /\ Len(urls) = 3
    /\ log[1].fetch = "failed"
    /\ log[2].records = 1 /\ "business_name" \notin DOMAIN log[2].rec
    /\ log[3].state \in {"Accepted", "Rejected"}

\* the positions of 1..n whose fetch gave a page, whose extracted record has
\* a businessName and which the classifier accepted, as their records in
\* the order of the positions
RECURSIVE QualifiedUpTo(_)
QualifiedUpTo(n) ==
    IF n = 0 THEN <<>>
    ELSE IF /\ log[n].fetch = "ok"
            /\ log[n].records = 1
            /\ ~AbsentName(log[n].rec)
            /\ log[n].verdict = "accept"
         THEN Append(QualifiedUpTo(n - 1), log[n].rec)
         ELSE QualifiedUpTo(n - 1)

\* C8: the output of scrape_businesses is exactly, and in the order of the
\* input, the records of the positions whose fetch succeeded, whose
\* extracted record has a businessName and which the classifier accepted.
C8_OutputIsQualified ==
    /\ qualified_businesses = QualifiedUpTo(Len(log))
    /\ \A i \in DOMAIN log : log[i].records <= 1

\* the scenario of three URLs: the first fetch fails, the second record has
\* no name, the third is named and accepted; the output is the third's record
C8_Witness ==
    /\ pc = "done"
    /\ Len(urls) = 3
    /\ log[1].fetch = "failed"
    /\ log[2].records = 1 /\ AbsentName(log[2].rec)
    /\ log[3].verdict = "accept"
    /\ qualified_businesses = <<log[3].rec>>
    /\ Get(log[3].rec, "source_url") = JStr(urls[3])

\* C9: a URL goes from Fetching to Skipped if and only if its fetch failed
\* (network error, non-2xx status, timeout); every URL whose fetch succeeded
\* enters Extracting and has a record created for it exactly once.
C9_SkippedIffFetchFailed ==
    \A i \in DOMAIN log :
        /\ (log[i].state = "Skipped" /\ log[i].records = 0)
              <=> log[i].fetch = "failed"
        /\ (log[i].fetch = "ok" /\ log[i].state \in Terminal)
              => log[i].records = 1

\* C10: the pacing delay is applied after every URL's traversal, whatever
\* its terminal state: when Fetching starts for URL i+1, the loop has slept
\* after URL i.
C10_DelayAfterEveryUrl ==
    \A i \in DOMAIN log :
        (i + 1 \in DOMAIN log /\ log[i + 1].state # "Pending")
            => log[i].slept = SleepSeconds

\* what the deterministic pass of extract_business_info computes of a page:
\* the email lists, the phones, the primary phone and the address
SignalLocals(html_content, seed) ==
    [unique_emails   |-> unique_emails(html_content, seed),
     owner_emails    |-> owner_emails(html_content, seed),
     business_emails |-> business_emails(html_content, seed),
     cleaned_phones  |-> cleaned_phones(html_content),
     main_phone      |-> main_phone(html_content),
     main_address    |-> main_address(html_content)]

\* C11: running the contact-signal pass twice on the same page gives the
\* same signals, the order of the emails, owner emails and business emails
\* included, and so the same first business email and first owner email for
\* the back-fill and the degraded record: the run that returned agrees with
\* a run of the same page in a process of any hash seed.
C11_ExtractorIdempotent ==
    ExtractReturned
        => \A seed \in Seeds :
              /\ SignalLocals(call.html_content, seed) =
                     SignalLocals(call.html_content, call.seed)
              /\ ContactSignals(call.html_content, seed) =
                     ContactSignals(call.html_content, call.seed)

\* a str of the form (XXX) XXX-XXXX
Canonical(phone) ==
    /\ Len(phone) = 7
    /\ <<phone[1], phone[3], phone[4], phone[6]>> = <<"(", ")", " ", "-">>
    /\ <<Len(phone[2]), Len(phone[5]), Len(phone[7])>> = <<3, 3, 4>>

\* the phone numbers a page shows, canonically written, in the order of
\* their places in the page, repeats included
RECURSIVE PhonesInPageOrder(_)
PhonesInPageOrder(elems) ==
    IF elems = <<>> THEN <<>>
    ELSE (IF Head(elems).fmt = "plain_tail"
          THEN <<FormatPhone(Head(elems).num), FormatPhone(Head(elems).tail)>>
          ELSE <<FormatPhone(Head(elems).num)>>)
         \o PhonesInPageOrder(Tail(elems))

\* the place of the first x in s
FirstPlace(s, x) == CHOOSE i \in 1..Len(s) : s[i] = x /\ \A j \in 1..(i - 1) : s[j] # x

\* C12: the phones extracted from a page are all of the form (XXX) XXX-XXXX
\* of 10 digits, hold no number twice, and list the numbers in the order
\* in which they are first seen in the page; the primary phone is the first
\* of them, or None when there is none.
C12_PhonesCanonicalInPageOrder ==
    ExtractReturned
        => LET found  == cleaned_phones(call.html_content)
               inPage == PhonesInPageOrder(FieldOf(call.html_content, "phone", 1))
           IN  /\ \A i \in 1..Len(found) :
                     /\ Canonical(found[i])
                     /\ CharLen(<<found[i][2], found[i][5], found[i][7]>>) = PhoneDigits
                     /\ \E j \in 1..Len(inPage) : inPage[j] = found[i]
               /\ \A i, j \in 1..Len(found) : i # j => found[i] # found[j]
               /\ \A i, j \in 1..Len(found) :
                     i < j => FirstPlace(inPage, found[i]) < FirstPlace(inPage, found[j])
               /\ main_phone(call.html_content) =
                     (IF found = <<>> THEN JNull ELSE JStr(found[1]))

\* the place of the } that closes the { at place i - 1 at depth 1; 0 if none
RECURSIVE BalancedEnd(_, _, _)
BalancedEnd(text, i, depth) ==
    IF i > Len(text) THEN 0
    ELSE CASE text[i].k = "lb" -> BalancedEnd(text, i + 1, depth + 1)
           [] text[i].k = "rb" -> IF depth = 1 THEN i
                                  ELSE BalancedEnd(text, i + 1, depth - 1)
           [] OTHER -> BalancedEnd(text, i + 1, depth)

\* the first balanced top-level object of a reply: from its first { to the
\* } that closes it
FirstBalancedObject(text) ==
    LET lbs == {i \in 1..Len(text) : text[i].k = "lb"}
    IN  IF lbs = {} THEN NoMatch
        ELSE LET first == CHOOSE i \in lbs : \A j \in lbs : i <= j
                 last  == BalancedEnd(text, first + 1, 1)
             IN  IF last = 0 THEN NoMatch
                 ELSE [found |-> TRUE, group |-> SubSeq(text, first, last)]

\* the reply's first balanced object is there and is well-formed JSON
HasWellFormedFirstObject(response) ==
    /\ response.ok
    /\ FirstBalancedObject(response.text).found
    /\ JsonLoads(FirstBalancedObject(response.text).group).ok

\* C13: in extract_business_info and in is_small_independent_business the
\* reply is parsed by taking its first balanced top-level JSON object: a
\* reply of commentary, one well-formed (possibly nested) object and further
\* text, which may hold braces, is decoded to that object, and the method
\* returns what that object gives, not the degraded record or the reject.
C13_FirstBalancedObjectParsed ==
    (ret.done /\ HasWellFormedFirstObject(call.response))
        => LET obj == JsonLoads(FirstBalancedObject(call.response.text).group).d
           IN  /\ ResponsePath(call.response) = "parsed"
               /\ Parsed(call.response) = obj
               /\ ret.out =
                     (IF call.fn = "extract_business_info"
                      THEN Return(Merged(obj, SignalsFor(call.html_content, call.seed),
                                         call.url))
                      ELSE Return(IsQualified(obj)))

\* the elements of a list
Elems(list) == {list[i] : i \in 1..Len(list)}

\* the local part of an email starts with one of the generic prefixes
StartsWithGenericPrefix(e) ==
    /\ LocalOf(e) # <<>>
    /\ \E i \in 1..Len(generic_prefixes) : LocalOf(e)[1] = generic_prefixes[i]

\* C14: role partition: a validated email is in business_emails if and only
\* if its local part starts with one of the generic prefixes info, contact,
\* sales, support, hello, admin, service, office, and in owner_emails
\* otherwise; the two lists are disjoint and together hold every validated
\* email.
C14_RolePartition ==
    ExtractReturned
        => LET all      == Elems(unique_emails(call.html_content, call.seed))
               owner    == Elems(owner_emails(call.html_content, call.seed))
               business == Elems(business_emails(call.html_content, call.seed))
           IN  /\ \A e \in all :
                     /\ e \in business <=> StartsWithGenericPrefix(e)
                     /\ e \in owner <=> ~StartsWithGenericPrefix(e)
               /\ owner \cap business = {}
               /\ owner \cup business = all

\* a parsed verdict leaves out at least one of its three keys
OmitsVerdictKey(d) == \E i \in 1..Len(VerdictKeys) : VerdictKeys[i] \notin DOMAIN d

\* what a key of the verdict counts as: its value, or when the key is
\* missing false for is_small_independent and is_service_based and true for
\* is_chain_or_franchise
CountsAs(d, key) ==
    IF key \in DOMAIN d THEN Truthy(d[key]) ELSE key = "is_chain_or_franchise"

\* C15: a parsed verdict that omits any of the three keys is rejected: a
\* missing is_small_independent or is_service_based counts as false and a
\* missing is_chain_or_franchise as true, so is_small_independent_business
\* raises nothing and accepts only when all three keys are in the verdict.
C15_MissingKeyRejected ==
    (ClassifyReturned /\ ResponsePath(call.response) = "parsed")
        => LET analysis == Parsed(call.response)
           IN  /\ ~ret.out.raised
               /\ Truthy(ret.out.value) <=>
                     (/\ CountsAs(analysis, "is_small_independent")
                      /\ CountsAs(analysis, "is_service_based")
                      /\ ~CountsAs(analysis, "is_chain_or_franchise"))
               /\ OmitsVerdictKey(analysis) => ~Truthy(ret.out.value)

\* a verdict small and service-based that leaves out is_chain_or_franchise
\* was rejected
C15_Witness ==
    /\ ClassifyReturned
    /\ ResponsePath(call.response) = "parsed"
    /\ DOMAIN Parsed(call.response) = {"is_small_independent", "is_service_based"}
    /\ Parsed(call.response)["is_small_independent"] = JBool(TRUE)
    /\ Parsed(call.response)["is_service_based"] = JBool(TRUE)
    /\ ret.out = Return(JBool(FALSE))

===========================================================================
